---- MODULE Spec2Model ----
(***************************************************************************)
(* Model of backend/app/main.py: the startup hook load_data, which builds  *)
(* the process-wide snapshot (df, all_property_types, location_tree), and  *)
(* the two request handlers get_form_options and search_rentals.           *)
(*                                                                         *)
(* Representation.                                                         *)
(*  - A text is a sequence of one-character strings, so that str.strip     *)
(*    and Python's string ordering are computed, not assumed.              *)
(*  - A cell of the data frame is [kind, val]: kind "str" (val a text),    *)
(*    "num" (val a number), "ts" (val <<day, hour>>, a timestamp) or "na"  *)
(*    (NaN / NaT / missing).                                               *)
(*  - Rent prices are float64 in the program.  A "num" cell of the column  *)
(*    Rent Price holds TWICE the price, so that prices with a fractional   *)
(*    part of one half, and the even-count median, are exact integers.     *)
(*    int(x) of the program is Trunc(2x, 2) here.                          *)
(*  - A row keeps the position it had in the CSV file (pandas' index       *)
(*    label), which boolean indexing and dropna preserve.                  *)
(***************************************************************************)
EXTENDS Integers, Sequences, FiniteSets, TLC

VARIABLES
    source,              \* the CSV file: [readable, rows]
    legacyStr,           \* pandas build: astype(str) renders NaN as "nan"
    pc,                  \* position of load_data
    df,                  \* global df (line 19)
    all_property_types,  \* global all_property_types (line 20)
    location_tree,       \* global location_tree (line 21)
    response             \* the last response a handler returned

vars == <<source, legacyStr, pc, df, all_property_types, location_tree, response>>

----------------------------------------------------------------------------
(* Texts *)

\* The characters in use, in code-point order (space < upper < lower).
Alphabet == <<" ", ",", "A", "B", "C", "D", "E", "R", "S", "a", "n">>

Ord(c) == CHOOSE i \in 1..Len(Alphabet) : Alphabet[i] = c

\* Python's < on str: lexicographic by code point, a proper prefix first.
RECURSIVE StrLess(_, _)
StrLess(s, t) ==
    IF t = <<>> THEN FALSE
    ELSE IF s = <<>> THEN TRUE
    ELSE IF Head(s) # Head(t) THEN Ord(Head(s)) < Ord(Head(t))
    ELSE StrLess(Tail(s), Tail(t))

RECURSIVE LStrip(_)
LStrip(s) == IF s # <<>> /\ Head(s) = " " THEN LStrip(Tail(s)) ELSE s

RECURSIVE RStrip(_)
RStrip(s) ==
    IF s # <<>> /\ s[Len(s)] = " " THEN RStrip(SubSeq(s, 1, Len(s) - 1)) ELSE s

\* str.strip()
StripText(s) == RStrip(LStrip(s))

----------------------------------------------------------------------------
(* Cells *)

NaN == [kind |-> "na", val |-> 0]
Str(s) == [kind |-> "str", val |-> s]
Num(n) == [kind |-> "num", val |-> n]
Ts(day, hour) == [kind |-> "ts", val |-> <<day, hour>>]

IsNa(c) == c.kind = "na"

\* A price of w currency units plus h halves, as a Rent Price cell.
Price(w, h) == Num(2 * w + h)

\* int(x) for x = num/den: truncation toward zero.
Trunc(num, den) ==
    IF num >= 0 THEN num \div den ELSE -((-num) \div den)

----------------------------------------------------------------------------
(* The data frame *)

\* The global df: None (line 19) or a frame, a sequence of rows.
None == [none |-> TRUE, rows |-> <<>>]
Frame(rows) == [none |-> FALSE, rows |-> rows]

\* pd.read_csv: every row gets its position in the file as index label.
ReadCsv(rows) == [i \in 1..Len(rows) |-> [idx |-> i - 1] @@ rows[i]]

\* pd.to_numeric(..., errors='coerce') on one cell.  The texts of the model
\* hold no digits, so a text never parses as a number.
ToNumeric(c) == IF c.kind = "num" THEN c ELSE NaN

\* .astype(str) on one cell of a text column.  Builds of pandas differ on a
\* missing value: the text "nan", or still missing.
AsStr(c, legacy) ==
    IF c.kind = "na" THEN (IF legacy THEN Str(<<"n", "a", "n">>) ELSE NaN) ELSE c

\* .str.strip() on one cell.
StripCell(c) == IF c.kind = "str" THEN Str(StripText(c.val)) ELSE c

\* .astype(str).str.strip() on one cell (lines 37-39).
CleanText(c, legacy) == StripCell(AsStr(c, legacy))

\* line 34
CoerceRent(rows) ==
    [i \in 1..Len(rows) |-> [rows[i] EXCEPT !.RentPrice = ToNumeric(@)]]

\* lines 37-39
CleanStrings(rows, legacy) ==
    [i \in 1..Len(rows) |->
        [rows[i] EXCEPT !.State = CleanText(@, legacy),
                        !.District = CleanText(@, legacy),
                        !.StandardType = CleanText(@, legacy)]]

\* The dropna test of line 43 on one row.
HasRequired(r) ==
    /\ ~IsNa(r.RentPrice)
    /\ ~IsNa(r.State)
    /\ ~IsNa(r.District)
    /\ ~IsNa(r.StandardType)

\* line 43
DropIncomplete(rows) == SelectSeq(rows, HasRequired)

\* sorted(...) of a set of texts.
RECURSIVE SortedTexts(_)
SortedTexts(S) ==
    IF S = {} THEN <<>>
    ELSE LET m == CHOOSE x \in S : \A y \in S \ {x} : StrLess(x, y)
         IN  <<m>> \o SortedTexts(S \ {m})

Range(seq) == {seq[i] : i \in 1..Len(seq)}

\* line 47.  unique() keeps a missing value; sorted() cannot order it
\* against texts, but after line 43 none is left.
AllTypes(rows) == SortedTexts({r.StandardType.val : r \in Range(rows)})

\* BuildTree with the groups taken by State alone.
BuildTree_ByState(rows) ==
    LET states == {r.State.val : r \in Range(rows)}
        districts(s) == {r.District.val : r \in {x \in Range(rows) : x.State.val = s}}
        types(s) == {r.StandardType.val : r \in {x \in Range(rows) : x.State.val = s}}
    IN  [s \in states |-> [d \in districts(s) |-> SortedTexts(types(s))]]

\* lines 50-56: groupby(['State', 'District']) drops missing keys (none is
\* left after line 43); each group's value is its sorted distinct types.
BuildTree(rows) ==
    LET states == {r.State.val : r \in Range(rows)}
        districts(s) == {r.District.val : r \in {x \in Range(rows) : x.State.val = s}}
        types(s, d) ==
            {r.StandardType.val :
                r \in {x \in Range(rows) : x.State.val = s /\ x.District.val = d}}
    IN  [s \in states |-> [d \in districts(s) |-> SortedTexts(types(s, d))]]

----------------------------------------------------------------------------
(* Aggregations *)

\* sorted order of a sequence of numbers.
RECURSIVE InsertInt(_, _)
InsertInt(x, sorted) ==
    IF sorted = <<>> THEN <<x>>
    ELSE IF x < Head(sorted) THEN <<x>> \o sorted
    ELSE <<Head(sorted)>> \o InsertInt(x, Tail(sorted))

RECURSIVE SortInts(_)
SortInts(seq) ==
    IF seq = <<>> THEN <<>>
    ELSE InsertInt(seq[Len(seq)], SortInts(SubSeq(seq, 1, Len(seq) - 1)))

\* The non-missing values of a column of rows, in row order.
Values(rows, col) ==
    LET present == SelectSeq(rows, LAMBDA r : ~IsNa(r[col]))
    IN  [i \in 1..Len(present) |-> present[i][col].val]

\* Median without the sort: the middle of the values in row order.
Median_Unsorted(vals) ==
    LET n == Len(vals)
    IN  IF n % 2 = 1
        THEN [num |-> vals[(n + 1) \div 2], den |-> 1]
        ELSE [num |-> vals[n \div 2] + vals[n \div 2 + 1], den |-> 2]

\* Series.median() of a non-empty sequence of numbers, as the exact
\* fraction num/den: the middle value, or the mean of the two central ones.
Median(vals) ==
    LET srt == SortInts(vals)
        n == Len(srt)
    IN  IF n % 2 = 1
        THEN [num |-> srt[(n + 1) \div 2], den |-> 1]
        ELSE [num |-> srt[n \div 2] + srt[n \div 2 + 1], den |-> 2]

\* Series.mean() of a non-empty sequence of numbers, as a fraction.
RECURSIVE SumSeq(_)
SumSeq(vals) == IF vals = <<>> THEN 0 ELSE Head(vals) + SumSeq(Tail(vals))

Mean(vals) == [num |-> SumSeq(vals), den |-> Len(vals)]

\* int(q) of a fraction q.
IntOf(q) == Trunc(q.num, q.den)

\* int(q) of a fraction q of doubled prices: the price is q / 2.
IntOfPrice(q) == Trunc(q.num, 2 * q.den)

\* Series.min() / Series.max() of a non-empty sequence of numbers.
MinOf(vals) == CHOOSE m \in Range(vals) : \A v \in Range(vals) : m <= v
MaxOf(vals) == CHOOSE m \in Range(vals) : \A v \in Range(vals) : m >= v

\* Series.mode()[0]: the most frequent value, the smallest among ties.
Occurrences(vals, v) == Cardinality({i \in 1..Len(vals) : vals[i] = v})

MostFrequent(vals) ==
    {v \in Range(vals) :
        \A w \in Range(vals) : Occurrences(vals, v) >= Occurrences(vals, w)}

ModeOfTexts(vals) ==
    CHOOSE v \in MostFrequent(vals) : \A w \in MostFrequent(vals) \ {v} : StrLess(v, w)

ModeOfNumbers(vals) ==
    CHOOSE v \in MostFrequent(vals) : \A w \in MostFrequent(vals) : v <= w

\* range(start, stop, step) for step > 0.
RECURSIVE PyRange(_, _, _)
PyRange(start, stop, step) ==
    IF start >= stop THEN <<>> ELSE <<start>> \o PyRange(start + step, stop, step)

\* sorted order of a set of numbers.
RECURSIVE SortedInts(_)
SortedInts(S) ==
    IF S = {} THEN <<>>
    ELSE LET m == CHOOSE x \in S : \A y \in S : x <= y
         IN  <<m>> \o SortedInts(S \ {m})

----------------------------------------------------------------------------
(* search_rentals, step by step *)

BinWidth == 500
IncomeMultiplier == 3

\* The cap of line 149 is 2000 rows; the model scales it down so that a
\* filtered set of a few rows exceeds it.
SampleCap == 2

\* == of a column with a str argument: a missing cell equals nothing.
CellIs(c, s) == c.kind = "str" /\ c.val = s

\* BaseFilter with the district left out of the mask.
BaseFilter_NoDistrict(rows, state, district, houseType) ==
    SelectSeq(rows, LAMBDA r : /\ CellIs(r.State, state)
                               /\ CellIs(r.StandardType, houseType))

\* lines 73-78
BaseFilter(rows, state, district, houseType) ==
    SelectSeq(rows, LAMBDA r : /\ CellIs(r.State, state)
                               /\ CellIs(r.District, district)
                               /\ CellIs(r.StandardType, houseType))

\* line 84
MedianRent(all_results) ==
    IntOfPrice(Median(Values(all_results, "RentPrice")))

\* lines 87-99.  An f-string "<n> sqft" is the pair <<"sqft", n>>.
CommonFeatures(all_results) ==
    LET furn == Values(all_results, "FurnishingType")
        size == Values(all_results, "PropertySize")
        bed  == Values(all_results, "NoOfBedroom")
        bath == Values(all_results, "NoOfBathroom")
    IN  (IF furn # <<>> THEN << <<"str", ModeOfTexts(furn)>> >> ELSE <<>>)
        \o (IF size # <<>> THEN << <<"sqft", IntOf(Median(size))>> >> ELSE <<>>)
        \o (IF bed # <<>> THEN << <<"Beds", ModeOfNumbers(bed)>> >> ELSE <<>>)
        \o (IF bath # <<>> THEN << <<"Baths", ModeOfNumbers(bath)>> >> ELSE <<>>)

\* line 115: list.sort(key=medianRent), stable.
RECURSIVE InsertByMedianRent(_, _)
InsertByMedianRent(x, sorted) ==
    IF sorted = <<>> THEN <<x>>
    ELSE IF x.medianRent < Head(sorted).medianRent THEN <<x>> \o sorted
    ELSE <<Head(sorted)>> \o InsertByMedianRent(x, Tail(sorted))

RECURSIVE SortByMedianRent(_)
SortByMedianRent(seq) ==
    IF seq = <<>> THEN <<>>
    ELSE InsertByMedianRent(seq[Len(seq)],
                            SortByMedianRent(SubSeq(seq, 1, Len(seq) - 1)))

\* lines 102-103
DistrictFilter(rows, state, district) ==
    SelectSeq(rows, LAMBDA r : CellIs(r.State, state) /\ CellIs(r.District, district))

\* IsOtherType with the queried type let through.
IsOtherType_Any(t_type, houseType) == TRUE

\* line 109: the types that enter the comparison.
IsOtherType(t_type, houseType) == t_type # houseType

\* lines 102-115.  groupby sorts the groups by key and drops missing keys.
Comparison(rows, state, district, houseType, median_rent) ==
    LET district_df == DistrictFilter(rows, state, district)
        keys == SortedTexts({r.StandardType.val :
                                r \in {x \in Range(district_df) : ~IsNa(x.StandardType)}})
        group(t) == SelectSeq(district_df, LAMBDA r : CellIs(r.StandardType, t))
        t_price(t) == IntOfPrice(Median(Values(group(t), "RentPrice")))
        comparison_data ==
            [i \in 1..Len(keys) |->
                [type |-> keys[i],
                 medianRent |-> t_price(keys[i]),
                 diff |-> t_price(keys[i]) - median_rent]]
    IN  SortByMedianRent(SelectSeq(comparison_data,
                                   LAMBDA e : IsOtherType(e.type, houseType)))

\* lines 118-126.  to_datetime(errors='coerce') leaves a timestamp only
\* where the cell parses; to_period('D') keeps its day, which is the label.
Trends(all_results) ==
    LET trend_df == SelectSeq(all_results, LAMBDA r : r.ExtractDate.kind = "ts")
        dayOf(r) == r.ExtractDate.val[1]
        days == SortedInts({dayOf(r) : r \in Range(trend_df)})
        ofDay(d) == SelectSeq(trend_df, LAMBDA r : dayOf(r) = d)
    IN  [i \in 1..Len(days) |->
            [name |-> days[i],
             price |-> IntOfPrice(Median(Values(ofDay(days[i]), "RentPrice")))]]

\* line 129: the bin edges.
BinEdges(prices) == PyRange(0, Trunc(MaxOf(prices), 2) + BinWidth, BinWidth)

\* lines 128-132.  pd.cut(right=False) puts a price p in the bin of edges
\* lo, hi when lo <= p < hi, and in none otherwise; a label "lo-hi" is the
\* pair <<lo, hi>>.
Distribution(all_results) ==
    LET prices == Values(all_results, "RentPrice")
        bins == BinEdges(prices)
        inBin(i) == {j \in 1..Len(prices) :
                        2 * bins[i] <= prices[j] /\ prices[j] < 2 * bins[i + 1]}
        price_dist ==
            [i \in 1..(Len(bins) - 1) |->
                [range |-> <<bins[i], bins[i] + BinWidth>>,
                 count |-> Cardinality(inBin(i))]]
    IN  SelectSeq(price_dist, LAMBDA b : b.count > 0)

\* line 135
MapResults(all_results) ==
    SelectSeq(all_results, LAMBDA r : ~IsNa(r.Latitude) /\ ~IsNa(r.Longitude))

\* line 137, as fractions.
DefaultCenter == <<[num |-> 31319, den |-> 10000], [num |-> 1016841, den |-> 10000]>>

\* lines 149-150: what sample(n=...) may return for a frame of n rows, as
\* the positions of the rows it keeps, in the order it returns them.
Samples(n) ==
    IF n > SampleCap
    THEN {p \in [1..SampleCap -> 1..n] : \A i, j \in 1..SampleCap : p[i] = p[j] => i = j}
    ELSE {[i \in 1..n |-> i]}

\* MapData with the colour range taken after the sampling of line 150.
MapData_RangeOfSample(all_results, pick) ==
    LET map_results == MapResults(all_results)
        sampled == [i \in 1..Len(pick) |-> map_results[pick[i]]]
        rents == Values(sampled, "RentPrice")
    IN  IF map_results = <<>>
        THEN [coordinates |-> DefaultCenter, points |-> <<>>, mapMin |-> 0, mapMax |-> 0]
        ELSE [coordinates |-> <<Mean(Values(map_results, "Latitude")),
                                Mean(Values(map_results, "Longitude"))>>,
              points |-> [i \in 1..Len(pick) |->
                            <<sampled[i].Latitude.val,
                              sampled[i].Longitude.val,
                              sampled[i].RentPrice.val>>],
              mapMin |-> Trunc(MinOf(rents), 2),
              mapMax |-> Trunc(MaxOf(rents), 2)]

\* lines 135-153, for the sample pick.
MapData(all_results, pick) ==
    LET map_results == MapResults(all_results)
        rents == Values(map_results, "RentPrice")
    IN  IF map_results = <<>>
        THEN [coordinates |-> DefaultCenter, points |-> <<>>, mapMin |-> 0, mapMax |-> 0]
        ELSE [coordinates |-> <<Mean(Values(map_results, "Latitude")),
                                Mean(Values(map_results, "Longitude"))>>,
              points |-> [i \in 1..Len(pick) |->
                            <<map_results[pick[i]].Latitude.val,
                              map_results[pick[i]].Longitude.val,
                              map_results[pick[i]].RentPrice.val>>],
              mapMin |-> Trunc(MinOf(rents), 2),
              mapMax |-> Trunc(MaxOf(rents), 2)]

----------------------------------------------------------------------------
(* The handlers *)

NotLoaded == [found |-> FALSE, error |-> "Data not loaded"]
NotFound == [found |-> FALSE]

\* An exception out of the handler (the transport answers 500).  The
\* aggregations raise only on a frame that line 34 or line 43 has not been
\* over yet: a text in Rent Price, or a group with no numeric rent at all.
Fault == [fault |-> TRUE]

Aggregable(rows, state, district) ==
    LET district_df == DistrictFilter(rows, state, district)
        group(t) == SelectSeq(district_df, LAMBDA r : r.StandardType = t)
    IN  \A r \in Range(district_df) :
            /\ r.RentPrice.kind # "str"
            /\ \/ IsNa(r.StandardType)
               \/ \E x \in Range(group(r.StandardType)) : x.RentPrice.kind = "num"

\* line 69
DfIsNone(d) == d.none

\* lines 60-65
get_form_options(types, tree) == [all_types |-> types, location_tree |-> tree]

\* lines 67-169; pick is what sample(n=...) of line 150 returned.
search_rentals(d, state, district, houseType, pick) ==
    IF DfIsNone(d) THEN NotLoaded
    ELSE
    LET all_results == BaseFilter(d.rows, state, district, houseType) IN
    IF all_results = <<>> THEN NotFound
    ELSE IF ~Aggregable(d.rows, state, district) THEN Fault
    ELSE
    LET median_rent == MedianRent(all_results)
        map == MapData(all_results, pick)
    IN  [found |-> TRUE,
         location |-> district \o <<",", " ">> \o state,
         medianRent |-> median_rent,
         suitableIncome |-> median_rent * IncomeMultiplier,
         coordinates |-> map.coordinates,
         points |-> map.points,
         mapMin |-> map.mapMin,
         mapMax |-> map.mapMax,
         commonFeatures |-> CommonFeatures(all_results),
         count |-> Len(all_results),
         comparison |-> Comparison(d.rows, state, district, houseType, median_rent),
         trends |-> Trends(all_results),
         distribution |-> Distribution(all_results)]

\* The samples line 150 may draw for a query.
Picks(d, state, district, houseType) ==
    Samples(Len(MapResults(BaseFilter(d.rows, state, district, houseType))))

\* DfAfterSearch with the dropna of line 122 run in place on the rows of df
\* (no new frame at lines 78 and 120).
DfAfterSearch_DropsInPlace(d, state, district, houseType) ==
    IF d.none THEN d
    ELSE Frame(SelectSeq(d.rows,
                 LAMBDA r : \/ r.ExtractDate.kind = "ts"
                            \/ ~(/\ CellIs(r.State, state)
                                 /\ CellIs(r.District, district)
                                 /\ CellIs(r.StandardType, houseType))))

\* The global df after a search.  search_rentals declares no global and
\* works on new frames only: df[mask] (lines 78, 103), .copy() (line 120),
\* the frame dropna returns (line 135), the frame sample returns (line 150).
DfAfterSearch(d, state, district, houseType) == d

----------------------------------------------------------------------------
(* The state machine *)

\* QueriesAccepted with load_data not holding the server back.
QueriesAccepted_Always == TRUE

\* @app.on_event("startup") (line 23): the server runs load_data to its end
\* before it accepts a request, and exits if it raises.  Before the hook
\* has run (an application driven without its startup events) the handlers
\* can be called, and find the globals of lines 19-21.
QueriesAccepted == pc \in {"idle", "done"}

\* The arguments of the queries.
QueryStates == {<<"A">>}
QueryDistricts == {<<"D">>, <<"E">>}
QueryTypes == {<<"C">>, <<"S">>, <<" ", "C">>}

NoResponse == [op |-> "none", at |-> "idle", args |-> <<>>, body |-> <<>>]

\* line 30, the file is read.
LoadRead ==
    /\ pc = "idle"
    /\ source.readable
    /\ df' = Frame(ReadCsv(source.rows))
    /\ pc' = "read"
    /\ UNCHANGED <<source, legacyStr, all_property_types, location_tree, response>>

\* LoadReadFails with the exception swallowed and an empty frame used.
LoadReadFails_Swallowed ==
    /\ pc = "idle"
    /\ ~source.readable
    /\ df' = Frame(<<>>)
    /\ pc' = "read"
    /\ UNCHANGED <<source, legacyStr, all_property_types, location_tree, response>>

\* line 30, read_csv raises: load_data ends there, df is not assigned.
LoadReadFails ==
    /\ pc = "idle"
    /\ ~source.readable
    /\ pc' = "failed"
    /\ UNCHANGED <<source, legacyStr, df, all_property_types, location_tree, response>>

\* line 34
LoadToNumeric ==
    /\ pc = "read"
    /\ df' = Frame(CoerceRent(df.rows))
    /\ pc' = "numeric"
    /\ UNCHANGED <<source, legacyStr, all_property_types, location_tree, response>>

\* lines 37-39
LoadStrip ==
    /\ pc = "numeric"
    /\ df' = Frame(CleanStrings(df.rows, legacyStr))
    /\ pc' = "stripped"
    /\ UNCHANGED <<source, legacyStr, all_property_types, location_tree, response>>

\* line 43
LoadDropna ==
    /\ pc = "stripped"
    /\ df' = Frame(DropIncomplete(df.rows))
    /\ pc' = "dropped"
    /\ UNCHANGED <<source, legacyStr, all_property_types, location_tree, response>>

\* line 47
LoadTypes ==
    /\ pc = "dropped"
    /\ all_property_types' = AllTypes(df.rows)
    /\ pc' = "typed"
    /\ UNCHANGED <<source, legacyStr, df, location_tree, response>>

\* lines 50-58
LoadTree ==
    /\ pc = "typed"
    /\ location_tree' = BuildTree(df.rows)
    /\ pc' = "done"
    /\ UNCHANGED <<source, legacyStr, df, all_property_types, response>>

\* GET /options
GetFormOptions ==
    /\ QueriesAccepted
    /\ response' = [op |-> "options", at |-> pc, args |-> <<>>,
                    body |-> get_form_options(all_property_types, location_tree)]
    /\ UNCHANGED <<source, legacyStr, pc, df, all_property_types, location_tree>>

\* GET /search
Search ==
    /\ QueriesAccepted
    /\ \E state \in QueryStates, district \in QueryDistricts, houseType \in QueryTypes :
         \E pick \in Picks(df, state, district, houseType) :
            /\ response' = [op |-> "search", at |-> pc,
                            args |-> <<state, district, houseType>>,
                            body |-> search_rentals(df, state, district, houseType, pick)]
            /\ df' = DfAfterSearch(df, state, district, houseType)
    /\ UNCHANGED <<source, legacyStr, pc, all_property_types, location_tree>>

Next ==
    \/ LoadRead
    \/ LoadReadFails
    \/ LoadToNumeric
    \/ LoadStrip
    \/ LoadDropna
    \/ LoadTypes
    \/ LoadTree
    \/ GetFormOptions
    \/ Search

----------------------------------------------------------------------------
(* Inputs *)

\* The longest CSV file, in rows: of the files for the cleaning, and of
\* the files for the queries.
MaxLoadRows == 2
MaxQueryRows == 3

\* A row of the CSV file.
RawRow(state, district, type, rent, lat, lng, date) ==
    [State |-> state, District |-> district, StandardType |-> type,
     RentPrice |-> rent, Latitude |-> lat, Longitude |-> lng, ExtractDate |-> date,
     FurnishingType |-> Str(<<"A">>), PropertySize |-> Num(800),
     NoOfBedroom |-> Num(2), NoOfBathroom |-> NaN]

SeqsUpTo(S, n) == UNION {[1..k -> S] : k \in 0..n}

\* Before load_data: the globals of lines 19-21, and a file that cannot be
\* read or holds up to n of the given rows.
InitWith(Rows, n, Builds) ==
    /\ \/ source = [readable |-> FALSE, rows |-> <<>>]
       \/ \E rows \in SeqsUpTo(Rows, n) : source = [readable |-> TRUE, rows |-> rows]
    /\ legacyStr \in Builds
    /\ pc = "idle"
    /\ df = None
    /\ all_property_types = <<>>
    /\ location_tree = <<>>
    /\ response = NoResponse

\* Files for the cleaning: required cells missing, blank, untrimmed or not
\* numeric.
LoadRows ==
    {RawRow(s, d, t, r, Num(3), Num(101), Ts(1, 9)) :
        s \in {Str(<<"A">>), NaN},
        d \in {Str(<<"D">>), Str(<<" ">>)},
        t \in {Str(<<"S">>), Str(<<" ", "C">>)},
        r \in {Price(1000, 0), Str(<<"R">>)}}

Init == InitWith(LoadRows, MaxLoadRows, BOOLEAN)

Spec == Init /\ [][Next]_vars

\* load_data as one function of the file: what lines 30-56 leave in the
\* globals when read_csv succeeds.
Cleaned(rows, legacy) == DropIncomplete(CleanStrings(CoerceRent(ReadCsv(rows)), legacy))

----------------------------------------------------------------------------
(* C3 *)

\* The trimmed text of a cell of the file, <<>> when the cell is missing.
Trimmed(c) == IF c.kind = "str" THEN StripText(c.val) ELSE <<>>

\* A row of the file that meets the four required-field constraints.
ValidRaw(raw) ==
    /\ raw.RentPrice.kind = "num"
    /\ Trimmed(raw.State) # <<>>
    /\ Trimmed(raw.District) # <<>>
    /\ Trimmed(raw.StandardType) # <<>>

ValidRaws == {r \in Range(source.rows) : ValidRaw(r)}

\* C3 as claimed: once load_data is over, every record of the snapshot has a
\* numeric rent and a non-empty trimmed state, district and type, it comes
\* from a valid row of the file, and the catalog and the location tree hold
\* only what valid rows of the file contribute.
C3_OnlyValidRecordsKept ==
    pc = "done" =>
        /\ \A r \in Range(df.rows) :
              /\ r.RentPrice.kind = "num"
              /\ r.State.kind = "str" /\ r.State.val # <<>>
              /\ r.District.kind = "str" /\ r.District.val # <<>>
              /\ r.StandardType.kind = "str" /\ r.StandardType.val # <<>>
              /\ ValidRaw(source.rows[r.idx + 1])
        /\ \A t \in Range(all_property_types) :
              \E v \in ValidRaws : Trimmed(v.StandardType) = t
        /\ \A s \in DOMAIN location_tree :
              \A d \in DOMAIN location_tree[s] :
                 \A t \in Range(location_tree[s][d]) :
                    \E v \in ValidRaws : /\ Trimmed(v.State) = s
                                          /\ Trimmed(v.District) = d
                                          /\ Trimmed(v.StandardType) = t

----------------------------------------------------------------------------
(* C5 *)

TreeHas(tree, S, D, T) ==
    /\ S \in DOMAIN tree
    /\ D \in DOMAIN tree[S]
    /\ T \in Range(tree[S][D])

\* The texts a state, district or type can be in the files for the
\* cleaning, and one that is in none.
TreeTexts ==
    {<<"A">>, <<"n", "a", "n">>, <<"D">>, <<>>, <<" ">>, <<"C">>, <<"S">>,
     <<" ", "C">>, <<"E">>}

StrictlySorted(seq) == \A i \in 1..(Len(seq) - 1) : StrLess(seq[i], seq[i + 1])

----------------------------------------------------------------------------
(* C9 *)

\* C9 as claimed: startup never completes on a file that yields no record,
\* and no query is answered once startup has failed or has left an empty
\* snapshot.
C9_EmptyOrUnreadableIsFatal ==
    /\ pc = "done" => df.rows # <<>>
    /\ response.at # "idle" => (response.at = "done" /\ df.rows # <<>>)

\* C9 amended: an unreadable file ends startup in the failed state, with df
\* still None and the catalog and the tree empty, and no query is answered
\* from then on; a readable file that leaves no record after the cleaning
\* ends startup normally, and then every Search is answered {found: false}
\* and GetFormOptions an empty catalog and an empty tree.
C9_UnreadableIsFatalEmptyIsServed ==
    /\ (~source.readable /\ pc # "idle") =>
          /\ pc = "failed"
          /\ df = None
          /\ all_property_types = <<>>
          /\ location_tree = <<>>
          /\ response.at = "idle"
    /\ response.at # "failed"
    /\ (pc = "done" /\ df.rows = <<>> /\ response.at = "done") =>
          /\ response.op = "search" => response.body = NotFound
          /\ response.op = "options" =>
                response.body = [all_types |-> <<>>, location_tree |-> <<>>]

\* A Search answered from the empty snapshot of a file whose rows were all
\* dropped by the cleaning.
C9_Witness ==
    /\ pc = "done"
    /\ source.rows # <<>>
    /\ df.rows = <<>>
    /\ response.op = "search"
    /\ response.at = "done"

----------------------------------------------------------------------------
(* C4 *)

\* C4: a Search answered before load_data has finished is answered with the
\* not-loaded result; a Search that computed anything ran on the finished
\* snapshot.
C4_SearchBeforeLoadIsNotLoaded ==
    response.op = "search" =>
        /\ response.at # "done" => response.body = NotLoaded
        /\ response.body # NotLoaded =>
              /\ response.at = "done"
              /\ df = Frame(Cleaned(source.rows, legacyStr))

\* A Search answered not-loaded before startup, and load_data then midway:
\* df already holds the rows of the file, not yet cleaned.
C4_Witness ==
    /\ response.op = "search"
    /\ response.at = "idle"
    /\ response.body = NotLoaded
    /\ pc = "read"
    /\ ~DfIsNone(df)
    /\ df.rows # Cleaned(source.rows, legacyStr)

----------------------------------------------------------------------------
(* Files for the queries *)

QueryRow(district, type, rent) ==
    RawRow(Str(<<"A">>), Str(district), Str(type), rent, Num(3), Num(101), Ts(1, 9))

\* Three types in district D and one in district E; rents of 500, 700.5 and
\* 1201.
CompareRows ==
    {QueryRow(<<"D">>, <<"C">>, Price(500, 0)),
     QueryRow(<<"D">>, <<"C">>, Price(700, 1)),
     QueryRow(<<"D">>, <<"C">>, Price(1201, 0)),
     QueryRow(<<"D">>, <<"S">>, Price(500, 0)),
     QueryRow(<<"D">>, <<"S">>, Price(1201, 0)),
     QueryRow(<<"D">>, <<"B">>, Price(500, 0)),
     QueryRow(<<"D">>, <<"B">>, Price(1201, 0)),
     QueryRow(<<"E">>, <<"S">>, Price(700, 1))}

\* No text cell of the files for the queries is missing, so the builds of
\* pandas agree on them.
InitCompare == InitWith(CompareRows, MaxQueryRows, {TRUE})

SpecCompare == InitCompare /\ [][Next]_vars

\* The answer to a Search that ran on the finished snapshot.
Searched == response.op = "search" /\ response.at = "done"

Found == Searched /\ response.body # NotFound

\* The records of the snapshot that equal the arguments of the answered
\* Search on all three fields, and those of its state and district.
Matching ==
    {i \in 1..Len(df.rows) :
        /\ CellIs(df.rows[i].State, response.args[1])
        /\ CellIs(df.rows[i].District, response.args[2])
        /\ CellIs(df.rows[i].StandardType, response.args[3])}

InDistrict ==
    {i \in 1..Len(df.rows) :
        /\ CellIs(df.rows[i].State, response.args[1])
        /\ CellIs(df.rows[i].District, response.args[2])}

OfType(t) == {i \in InDistrict : CellIs(df.rows[i].StandardType, t)}

\* The k-th smallest doubled rent among the records I, by counting: the
\* rent with fewer than k rents below it and at least k rents not above it.
KthRent(I, k) ==
    CHOOSE v \in {df.rows[i].RentPrice.val : i \in I} :
        /\ Cardinality({i \in I : df.rows[i].RentPrice.val < v}) < k
        /\ Cardinality({i \in I : df.rows[i].RentPrice.val <= v}) >= k

\* The truncated median rent of the records I, from the sorted order.
TruncatedMedian(I) ==
    LET n == Cardinality(I)
    IN  IF n % 2 = 1
        THEN Trunc(KthRent(I, (n + 1) \div 2), 2)
        ELSE Trunc(KthRent(I, n \div 2) + KthRent(I, n \div 2 + 1), 4)

----------------------------------------------------------------------------
(* C1 *)

\* C1: a Search on the finished snapshot answers found = true exactly when a
\* record equals its arguments on state, district and type, and then count
\* is the number of those records; otherwise the answer is {found: false}
\* and nothing else.
C1_FoundIffMatchAndCountExact ==
    Searched =>
        /\ "found" \in DOMAIN response.body
        /\ response.body.found <=> Matching # {}
        /\ response.body.found => response.body.count = Cardinality(Matching)
        /\ ~response.body.found => response.body = NotFound

\* A Search that found both rows of a file, which the file types with a
\* leading blank and the query without.
C1_Witness ==
    /\ Searched
    /\ response.body.found
    /\ response.body.count = 2
    /\ source.rows[1].StandardType.val = <<" ", "C">>
    /\ response.args[3] = <<"C">>

----------------------------------------------------------------------------
(* C7 *)

\* C7 as claimed: for an odd count medianRent is the middle rent itself.
C7_OddMedianIsMiddleValue ==
    (Found /\ Cardinality(Matching) % 2 = 1) =>
        2 * response.body.medianRent =
            KthRent(Matching, (Cardinality(Matching) + 1) \div 2)

\* C7 amended: medianRent is the middle rent of the sorted matching records
\* truncated to an integer for an odd count, the truncated mean of the two
\* central rents for an even count, whatever the order of the records; and
\* suitableIncome is three times medianRent.
C7_MedianTruncatedAndIncome ==
    Found =>
        /\ response.body.medianRent = TruncatedMedian(Matching)
        /\ response.body.suitableIncome = 3 * response.body.medianRent

\* Three matching records, not in ascending order of rent, whose middle
\* rent is not a whole number.
C7_Witness ==
    /\ Found
    /\ Cardinality(Matching) = 3
    /\ df.rows[1].RentPrice.val > df.rows[2].RentPrice.val
    /\ KthRent(Matching, 2) % 2 = 1

----------------------------------------------------------------------------
(* C6 *)

\* C6: the comparison of a successful Search has one entry for each type of
\* the district other than the queried one and none for the queried one;
\* an entry's medianRent is the truncated median rent of its type in the
\* district and its diff is that minus the answer's medianRent; the entries
\* ascend by medianRent.
C6_ComparisonCoversOtherTypes ==
    Found =>
        LET cmp == response.body.comparison
            others == {df.rows[i].StandardType.val : i \in InDistrict} \ {response.args[3]}
        IN  /\ {cmp[i].type : i \in 1..Len(cmp)} = others
            /\ Len(cmp) = Cardinality(others)
            /\ \A i \in 1..Len(cmp) :
                  /\ cmp[i].medianRent = TruncatedMedian(OfType(cmp[i].type))
                  /\ cmp[i].diff = cmp[i].medianRent - response.body.medianRent
            /\ \A i \in 1..(Len(cmp) - 1) : cmp[i].medianRent <= cmp[i + 1].medianRent

\* A comparison of two other types that is not in the order of their names.
C6_Witness ==
    /\ Found
    /\ Len(response.body.comparison) = 2
    /\ StrLess(response.body.comparison[2].type, response.body.comparison[1].type)
    /\ response.body.comparison[1].diff # 0

----------------------------------------------------------------------------
(* C2 *)

\* C2 as claimed: the distribution of a successful Search counts every rent
\* of the matching records in exactly one bin [k*500, (k+1)*500): each
\* emitted bin is such a range with a count above zero that is the number
\* of rents in it, every rent is in an emitted bin, and the counts sum to
\* the number of rents.
C2_EveryPriceInOneBin ==
    Found =>
        LET dist == response.body.distribution
            rentsIn(lo, hi) ==
                {i \in Matching : /\ 2 * lo <= df.rows[i].RentPrice.val
                                  /\ df.rows[i].RentPrice.val < 2 * hi}
        IN  /\ \A b \in 1..Len(dist) :
                  /\ dist[b].range[1] % BinWidth = 0
                  /\ dist[b].range[2] = dist[b].range[1] + BinWidth
                  /\ dist[b].count > 0
                  /\ dist[b].count = Cardinality(rentsIn(dist[b].range[1], dist[b].range[2]))
            /\ \A b, c \in 1..Len(dist) : b < c => dist[b].range[1] < dist[c].range[1]
            /\ \A i \in Matching :
                  \E b \in 1..Len(dist) : i \in rentsIn(dist[b].range[1], dist[b].range[2])
            /\ SumSeq([b \in 1..Len(dist) |-> dist[b].count]) = Cardinality(Matching)

----------------------------------------------------------------------------
(* C8 *)

\* Records with and without coordinates, of rents 500, 700.5 and 1201; the
\* highest rent is on a record without coordinates.
MapRow(type, lat, lng, rent) ==
    RawRow(Str(<<"A">>), Str(<<"D">>), Str(type), rent, lat, lng, Ts(1, 9))

MapRows ==
    {MapRow(<<"C">>, Num(3), Num(101), Price(500, 0)),
     MapRow(<<"C">>, Num(3), Num(101), Price(700, 1)),
     MapRow(<<"C">>, Num(5), Num(103), Price(500, 0)),
     MapRow(<<"C">>, Num(5), Num(103), Price(600, 0)),
     MapRow(<<"C">>, NaN, Num(101), Price(700, 1)),
     MapRow(<<"C">>, Num(3), NaN, Price(400, 0)),
     MapRow(<<"C">>, NaN, NaN, Price(1201, 0)),
     MapRow(<<"S">>, Num(4), Num(102), Price(1201, 0))}

InitMap == InitWith(MapRows, MaxQueryRows, {TRUE})

SpecMap == InitMap /\ [][Next]_vars

\* The matching records that have both coordinates.
Located ==
    {i \in Matching : ~IsNa(df.rows[i].Latitude) /\ ~IsNa(df.rows[i].Longitude)}

PointOf(i) ==
    <<df.rows[i].Latitude.val, df.rows[i].Longitude.val, df.rows[i].RentPrice.val>>

Min2(a, b) == IF a <= b THEN a ELSE b

\* The points are distinct located records: no triple occurs more often
\* among the points than among the located records.
PointsAreDistinctRecords ==
    \A p \in Range(response.body.points) :
        Cardinality({k \in 1..Len(response.body.points) : response.body.points[k] = p})
            <= Cardinality({i \in Located : PointOf(i) = p})

\* C8 as claimed: the price of every point lies between mapMin and mapMax.
C8_PointPricesWithinRange ==
    Found =>
        \A p \in Range(response.body.points) :
            /\ 2 * response.body.mapMin <= p[3]
            /\ p[3] <= 2 * response.body.mapMax

\* C8 amended: whatever sample is drawn, the number of points is the
\* smaller of the number of located records and the cap, the points are
\* distinct located records, mapMin and mapMax are the truncated lowest and
\* highest rent of all located records, so that the truncated price of every
\* point lies between them; with no located record the points are empty,
\* mapMin = mapMax = 0 and the centre is the default.
C8_PointsAndTruncatedRange ==
    Found =>
        /\ Len(response.body.points) = Min2(Cardinality(Located), SampleCap)
        /\ PointsAreDistinctRecords
        /\ Located # {} =>
              /\ \A i \in Located :
                    /\ response.body.mapMin <= Trunc(df.rows[i].RentPrice.val, 2)
                    /\ Trunc(df.rows[i].RentPrice.val, 2) <= response.body.mapMax
              /\ \E i \in Located :
                    response.body.mapMin = Trunc(df.rows[i].RentPrice.val, 2)
              /\ \E i \in Located :
                    response.body.mapMax = Trunc(df.rows[i].RentPrice.val, 2)
              /\ \A p \in Range(response.body.points) :
                    /\ response.body.mapMin <= Trunc(p[3], 2)
                    /\ Trunc(p[3], 2) <= response.body.mapMax
        /\ Located = {} =>
              /\ response.body.points = <<>>
              /\ response.body.mapMin = 0
              /\ response.body.mapMax = 0
              /\ response.body.coordinates = DefaultCenter

\* A sample that left out the located record of the highest rent.
C8_Witness ==
    /\ Found
    /\ Cardinality(Located) > SampleCap
    /\ Len(response.body.points) = SampleCap
    /\ \A p \in Range(response.body.points) : Trunc(p[3], 2) < response.body.mapMax

----------------------------------------------------------------------------
(* C10 *)

\* Records whose date parses or not, with and without coordinates.
FrameRow(type, lat, date, rent) ==
    RawRow(Str(<<"A">>), Str(<<"D">>), Str(type), rent, lat, Num(101), date)

FrameRows ==
    {FrameRow(<<"C">>, Num(3), Ts(1, 9), Price(500, 0)),
     FrameRow(<<"C">>, Num(3), Ts(1, 17), Price(1201, 0)),
     FrameRow(<<"C">>, Num(3), Str(<<"R">>), Price(500, 0)),
     FrameRow(<<"C">>, NaN, Ts(1, 9), Price(700, 1)),
     FrameRow(<<"C">>, NaN, Str(<<"R">>), Price(500, 0)),
     FrameRow(<<"C">>, Num(5), Ts(2, 9), Price(1201, 0)),
     FrameRow(<<"S">>, Num(3), NaN, Price(700, 1)),
     FrameRow(<<"S">>, NaN, Str(<<"R">>), Price(500, 0))}

InitFrame == InitWith(FrameRows, MaxQueryRows, {TRUE})

SpecFrame == InitFrame /\ [][Next]_vars

\* An answer without its random field, the sample of points.
NonRandom(body) == IF body = NotFound THEN body ELSE [body EXCEPT !.points = <<>>]

\* C10: once load_data is over, df, the catalog and the tree stay what
\* load_data made of the file, whatever queries were answered since; and the
\* non-random fields of a Search answer are those the arguments give on
\* that snapshot.
C10_QueriesLeaveSnapshotUnchanged ==
    pc = "done" =>
        LET snapshot == Cleaned(source.rows, legacyStr) IN
        /\ df = Frame(snapshot)
        /\ all_property_types = AllTypes(snapshot)
        /\ location_tree = BuildTree(snapshot)
        /\ Searched =>
              \E pick \in Picks(Frame(snapshot), response.args[1],
                                 response.args[2], response.args[3]) :
                 NonRandom(response.body) =
                    NonRandom(search_rentals(Frame(snapshot), response.args[1],
                                             response.args[2], response.args[3], pick))

\* A Search over three matching records that left a record out of the trend
\* for its date, a record out of the map for its coordinates, and the
\* snapshot whole.
C10_Witness ==
    /\ Found
    /\ response.body.count = 3
    /\ Len(df.rows) = 3
    /\ \E i \in Matching : df.rows[i].ExtractDate.kind # "ts"
    /\ Len(response.body.points) < 3
    /\ Len(response.body.trends) > 0

====
